---- MODULE Spec2Model ----
(***************************************************************************)
(* _clib_fork_exec (Sources/CLib/shims.c): the parent creates the error    *)
(* pipe, forks, and reads the pipe until end-of-stream or a failure        *)
(* record; the forked child rewires descriptors 0..2, closes everything    *)
(* else, arms close-on-exec on the pipe's write end and calls execve.      *)
(*                                                                         *)
(* The model keeps the descriptor tables of the parent and of every child  *)
(* (descriptor number -> open file), the close-on-exec flags of the child, *)
(* the bytes in flight in each pipe (one element per int), and the program *)
(* counter of each side.  System calls whose result depends on the         *)
(* descriptor table (pipe, dup2, close, fcntl, write, read's data/EOF)     *)
(* are computed from the table; results that depend on the rest of the     *)
(* system (fork failing, execve failing, a signal interrupting read or     *)
(* waitpid, a read error) are chosen nondeterministically.                 *)
(***************************************************************************)
EXTENDS Integers, Sequences, FiniteSets, TLC

(* ------------------------------ bounds --------------------------------- *)

\* Highest descriptor number of a process; getdtablesize() is MaxFd + 1.
MaxFd == 6

\* Highest descriptor number the caller may have open when the call is made.
MaxOpen == 3

\* The most ints the pipe holds when the read loop is checked on its own.
MaxPipe == 3

(* ------------------------- program constants --------------------------- *)

_CLIB_FORK_EXEC_ERR_PIPE_OPEN == -1
_CLIB_FORK_EXEC_ERR_FORK == -2
_CLIB_FORK_EXEC_ERR_PIPE_READ == -3
_CLIB_FORK_EXEC_CHILD_ERR_DUP2 == -4
_CLIB_FORK_EXEC_CHILD_ERR_PIPE_CLOEXEC == -5
_CLIB_FORK_EXEC_CHILD_ERR_EXEC == -6

\* In ints: the record is 2 * sizeof(int) bytes, the pipe is modelled int by int.
FORK_EXEC_ERR_MESSAGE_SIZE == 2

STDIN_FILENO == 0
STDOUT_FILENO == 1
STDERR_FILENO == 2

\* errno values (Linux numbering).
ENOENT == 2
EINTR == 4
EIO == 5
EBADF == 9
EAGAIN == 11
EMFILE == 24
EDOM == 33

\* What the caller's *err_out holds before the store of line 61.
Garbage == 99

\* Line 49: the status of _exit(127).
ExitNotify == 127

\* exit_status of a child that has not terminated.
NoStatus == -1

(* --------------------------- descriptor tables ------------------------- *)

Calls == {1, 2}

Fds == 0 .. MaxFd

\* Open files.  A descriptor that is not open maps to Closed; a file the
\* caller had open at descriptor n before the call is the file n; the two
\* ends of the pipe of call c are PipeR(c) and PipeW(c).
Closed == -1
PipeR(c) == 10 + c
PipeW(c) == 20 + c
UserFiles == Fds
PipeFiles == {PipeR(c) : c \in Calls} \cup {PipeW(c) : c \in Calls}
Files == UserFiles \cup PipeFiles \cup {Closed}

\* The pid fork() gives the child of call c.
Pid(c) == 100 + c

AllClosed == [fd \in Fds |-> Closed]

FreeFds(tab) == {fd \in Fds : tab[fd] = Closed}

LowestFree(tab) == CHOOSE fd \in FreeFds(tab) : \A g \in FreeFds(tab) : fd <= g

\* close(fd): releases the descriptor; EBADF (no effect) when it is not open
\* or out of range.
CloseFd(tab, fd) == IF fd \in Fds THEN [tab EXCEPT ![fd] = Closed] ELSE tab

RECURSIVE CloseAll(_, _)
CloseAll(tab, fds) ==
    IF fds = {} THEN tab
    ELSE LET fd == CHOOSE x \in fds : TRUE
         IN CloseAll(CloseFd(tab, fd), fds \ {fd})

\* dup2(src, dst) succeeds iff src is an open descriptor.
Dup2Ok(tab, src) == src \in Fds /\ tab[src] # Closed

\* The table after a successful dup2(src, dst).
Dup2Tab(tab, src, dst) == [tab EXCEPT ![dst] = tab[src]]

\* Processes holding an open descriptor on file f.
HeldBy(tab, f) == \E fd \in Fds : tab[fd] = f

(* ------------------------------- state --------------------------------- *)

VARIABLES
    args,       \* args[c]: the fd_stdin, fd_stdout, fd_stderr of call c
    ptab,       \* descriptor table of the calling process
    ppc,        \* ppc[c]: where the parent side of call c is
    exec_pipe,  \* exec_pipe[c] = <<exec_pipe_read, exec_pipe_write>>
    result,     \* result[c]: the local 'result', returned at the end
    err_out,    \* err_out[c]: *err_out
    perrno,     \* perrno[c]: errno of the calling thread, from fork() to line 81
    cpc,        \* cpc[c]: where the child of call c is
    ctab,       \* ctab[c]: descriptor table of the child of call c
    cloexec,    \* cloexec[c]: descriptors of the child marked FD_CLOEXEC
    nop,        \* nop[c], nerr[c]: (operation, err) passed to
    nerr,       \*   notify_parent_and_exit by the child of call c
    pipebuf,    \* pipebuf[c]: ints written to the pipe of call c, not yet read
    execed,     \* execed[c]: execve succeeded in the child of call c
    wrote,      \* wrote[c]: the writes of the child's notify_parent_and_exit
    eof,        \* eof[c]: child position when the parent read 0 bytes
    ptab0,      \* descriptor table of the calling process before the calls
    exit_status \* exit_status[c]: status the child of call c terminated with

pvars == <<args, ptab0, ptab, ppc, exec_pipe, result, err_out, perrno, eof>>
cvars == <<cpc, ctab, cloexec, nop, nerr, execed, exit_status, wrote>>
vars == <<args, ptab, ppc, exec_pipe, result, err_out, perrno, cpc, ctab,
          cloexec, nop, nerr, pipebuf, execed, wrote, eof, ptab0, exit_status>>

fd_stdin(c) == args[c][1]
fd_stdout(c) == args[c][2]
fd_stderr(c) == args[c][3]
exec_pipe_read(c) == exec_pipe[c][1]
exec_pipe_write(c) == exec_pipe[c][2]

\* The table in which exactly the descriptors of S are open.
TableOf(S) == [fd \in Fds |-> IF fd \in S THEN fd ELSE Closed]

\* The descriptor tables a caller can have: any set of open descriptors.
InitTables == {TableOf(S) : S \in SUBSET (0 .. MaxOpen)}

InitCommon ==
    /\ exec_pipe = [c \in Calls |-> <<Closed, Closed>>]
    /\ result = [c \in Calls |-> 0]
    /\ err_out = [c \in Calls |-> Garbage]
    /\ perrno = [c \in Calls |-> 0]
    /\ cpc = [c \in Calls |-> "none"]
    /\ ctab = [c \in Calls |-> AllClosed]
    /\ cloexec = [c \in Calls |-> {}]
    /\ nop = [c \in Calls |-> 0]
    /\ nerr = [c \in Calls |-> 0]
    /\ pipebuf = [c \in Calls |-> <<>>]
    /\ execed = [c \in Calls |-> FALSE]
    /\ wrote = [c \in Calls |-> <<>>]
    /\ eof = [c \in Calls |-> "no"]
    /\ exit_status = [c \in Calls |-> NoStatus]

\* One call of _clib_fork_exec; call 2 is never made.
Init ==
    /\ InitCommon
    /\ ptab \in InitTables
    /\ ptab0 = ptab
    /\ \E a \in Fds \X Fds \X Fds : args = [c \in Calls |-> IF c = 1 THEN a ELSE <<0, 0, 0>>]
    /\ ppc = [c \in Calls |-> IF c = 1 THEN "start" ELSE "idle"]

\* Two calls of _clib_fork_exec made concurrently by two threads of one
\* process.  The caller has descriptors 0, 1 and 2 all open or all closed,
\* and each call redirects its three streams to one descriptor (the two
\* calls are interchangeable, so call 1 has the lower one).
ConcTables == {TableOf({}), TableOf({STDIN_FILENO, STDOUT_FILENO, STDERR_FILENO})}

InitConc ==
    /\ InitCommon
    /\ ptab \in ConcTables
    /\ ptab0 = ptab
    /\ \E a, b \in Fds :
         /\ a <= b
         /\ args = [c \in Calls |-> IF c = 1 THEN <<a, a, a>> ELSE <<b, b, b>>]
    /\ ppc = [c \in Calls |-> "start"]

(* --------------------------- the pipe as a file ------------------------ *)

\* Some process still has the write end of pipe k open.
Writers(k) ==
    \/ HeldBy(ptab, PipeW(k))
    \/ \E d \in Calls : HeldBy(ctab[d], PipeW(k))

Min(a, b) == IF a < b THEN a ELSE b

Take(s, n) == SubSeq(s, 1, n)
Drop(s, n) == SubSeq(s, n + 1, Len(s))

(* ------------------------------ parent side ---------------------------- *)

\* Lines 61-73: *err_out = 0; pipe(exec_pipe), which takes the two lowest
\* free descriptors and fails with EMFILE when there are not two.
ParentPipe(c) ==
    /\ ppc[c] = "start"
    /\ IF Cardinality(FreeFds(ptab)) < 2
       THEN /\ err_out' = [err_out EXCEPT ![c] = EMFILE]
            /\ result' = [result EXCEPT ![c] = _CLIB_FORK_EXEC_ERR_PIPE_OPEN]
            /\ ppc' = [ppc EXCEPT ![c] = "done"]
            /\ UNCHANGED <<ptab, exec_pipe, perrno>>
       ELSE LET r == LowestFree(ptab)
                t == [ptab EXCEPT ![r] = PipeR(c)]
                w == LowestFree(t)
            IN /\ ptab' = [t EXCEPT ![w] = PipeW(c)]
               /\ exec_pipe' = [exec_pipe EXCEPT ![c] = <<r, w>>]
               /\ err_out' = [err_out EXCEPT ![c] = 0]
               /\ ppc' = [ppc EXCEPT ![c] = "fork"]
               /\ UNCHANGED <<result, perrno>>
    /\ UNCHANGED <<args, ptab0, eof, pipebuf>>
    /\ UNCHANGED cvars

\* Line 75, fork() succeeding: the child starts with a copy of the
\* parent's descriptor table.
ParentFork(c) ==
    /\ ppc[c] = "fork"
    /\ ppc' = [ppc EXCEPT ![c] = "close_write"]
    /\ cpc' = [cpc EXCEPT ![c] = "close_read"]
    /\ ctab' = [ctab EXCEPT ![c] = ptab]
    /\ cloexec' = [cloexec EXCEPT ![c] = {}]
    /\ UNCHANGED <<args, ptab0, ptab, exec_pipe, result, err_out, perrno, eof,
                   nop, nerr, pipebuf, execed, exit_status, wrote>>

\* Line 75, fork() failing (pid == -1) with EAGAIN.
ParentForkFails(c) ==
    /\ ppc[c] = "fork"
    /\ perrno' = [perrno EXCEPT ![c] = EAGAIN]
    /\ ppc' = [ppc EXCEPT ![c] = "fork_failed"]
    /\ UNCHANGED <<args, ptab0, ptab, exec_pipe, result, err_out, eof, pipebuf>>
    /\ UNCHANGED cvars

\* errno after close(): unchanged when close returns 0, the error otherwise.
\* The descriptor is released in both cases.
ErrnoAfterClose(e, failure) == IF failure = 0 THEN e ELSE failure

\* Lines 77-83: close both ends, then *err_out = errno.
ParentForkFailed(c) ==
    /\ ppc[c] = "fork_failed"
    /\ \E f1 \in {0, EINTR}, f2 \in {0, EIO} :
         LET e == ErrnoAfterClose(ErrnoAfterClose(perrno[c], f1), f2)
         IN /\ perrno' = [perrno EXCEPT ![c] = e]
            /\ err_out' = [err_out EXCEPT ![c] = e]
    /\ ptab' = CloseFd(CloseFd(ptab, exec_pipe_read(c)), exec_pipe_write(c))
    /\ result' = [result EXCEPT ![c] = _CLIB_FORK_EXEC_ERR_FORK]
    /\ ppc' = [ppc EXCEPT ![c] = "done"]
    /\ UNCHANGED <<args, ptab0, exec_pipe, eof, pipebuf>>
    /\ UNCHANGED cvars

\* ParentCloseWrite closing the read end instead of the write end.
ParentCloseWrite_WrongEnd(c) ==
    /\ ppc[c] = "close_write"
    /\ ptab' = CloseFd(ptab, exec_pipe_read(c))
    /\ ppc' = [ppc EXCEPT ![c] = "read"]
    /\ UNCHANGED <<args, ptab0, exec_pipe, result, err_out, perrno, eof, pipebuf>>
    /\ UNCHANGED cvars

\* Line 88: close(exec_pipe_write) in the parent.
ParentCloseWrite(c) ==
    /\ ppc[c] = "close_write"
    /\ ptab' = CloseFd(ptab, exec_pipe_write(c))
    /\ ppc' = [ppc EXCEPT ![c] = "read"]
    /\ UNCHANGED <<args, ptab0, exec_pipe, result, err_out, perrno, eof, pipebuf>>
    /\ UNCHANGED cvars

\* ReadStep with the two ints of the record decoded the wrong way round.
ReadStep_Swapped(n, e, buf, pid, res, eo) ==
    IF n = -1
    THEN IF e # EINTR /\ e # EAGAIN
         THEN <<_CLIB_FORK_EXEC_ERR_PIPE_READ, e>>
         ELSE <<res, eo>>
    ELSE IF n = 0
    THEN <<pid, eo>>
    ELSE IF n = FORK_EXEC_ERR_MESSAGE_SIZE
    THEN <<buf[2], buf[1]>>
    ELSE <<_CLIB_FORK_EXEC_ERR_PIPE_READ, EDOM>>

\* ReadStep storing the errno of a read that is retried.
ReadStep_StoresRetried(n, e, buf, pid, res, eo) ==
    IF n = -1
    THEN IF e # EINTR /\ e # EAGAIN
         THEN <<_CLIB_FORK_EXEC_ERR_PIPE_READ, e>>
         ELSE <<res, e>>
    ELSE IF n = 0
    THEN <<pid, eo>>
    ELSE IF n = FORK_EXEC_ERR_MESSAGE_SIZE
    THEN <<buf[1], buf[2]>>
    ELSE <<_CLIB_FORK_EXEC_ERR_PIPE_READ, EDOM>>

\* ReadStep with EAGAIN taken for an error that ends the loop.
ReadStep_EagainEnds(n, e, buf, pid, res, eo) ==
    IF n = -1
    THEN IF e # EINTR
         THEN <<_CLIB_FORK_EXEC_ERR_PIPE_READ, e>>
         ELSE <<res, eo>>
    ELSE IF n = 0
    THEN <<pid, eo>>
    ELSE IF n = FORK_EXEC_ERR_MESSAGE_SIZE
    THEN <<buf[1], buf[2]>>
    ELSE <<_CLIB_FORK_EXEC_ERR_PIPE_READ, EDOM>>

\* Lines 98-120, the body of the read loop after read() returned n with
\* errno e and the ints buf: the new <<result, *err_out>>.
ReadStep(n, e, buf, pid, res, eo) ==
    IF n = -1
    THEN IF e # EINTR /\ e # EAGAIN
         THEN <<_CLIB_FORK_EXEC_ERR_PIPE_READ, e>>
         ELSE <<res, eo>>
    ELSE IF n = 0
    THEN <<pid, eo>>
    ELSE IF n = FORK_EXEC_ERR_MESSAGE_SIZE
    THEN <<buf[1], buf[2]>>
    ELSE <<_CLIB_FORK_EXEC_ERR_PIPE_READ, EDOM>>

\* AfterRead with the waitpid of line 126 done for every result.
AfterRead_AlwaysWait(res) == IF res = 0 THEN "read" ELSE "waitpid"

\* Lines 94, 123-129: where the parent goes with the new result: around the
\* loop, to waitpid (result < 0), or straight to close(exec_pipe_read).
AfterRead(res) ==
    IF res = 0 THEN "read" ELSE IF res < 0 THEN "waitpid" ELSE "close_read"

ReadReturns(c, n, e, buf) ==
    LET out == ReadStep(n, e, buf, Pid(c), result[c], err_out[c])
    IN /\ result' = [result EXCEPT ![c] = out[1]]
       /\ err_out' = [err_out EXCEPT ![c] = out[2]]
       /\ ppc' = [ppc EXCEPT ![c] = AfterRead(out[1])]

\* Line 96, read() returning data: up to FORK_EXEC_ERR_MESSAGE_SIZE of what
\* is in the pipe.
ParentReadData(c) ==
    /\ ppc[c] = "read"
    /\ \E k \in Calls :
         /\ ptab[exec_pipe_read(c)] = PipeR(k)
         /\ pipebuf[k] # <<>>
         /\ LET n == Min(Len(pipebuf[k]), FORK_EXEC_ERR_MESSAGE_SIZE)
            IN /\ ReadReturns(c, n, perrno[c], Take(pipebuf[k], n))
               /\ pipebuf' = [pipebuf EXCEPT ![k] = Drop(pipebuf[k], n)]
    /\ UNCHANGED <<args, ptab0, ptab, exec_pipe, perrno, eof>>
    /\ UNCHANGED cvars

\* Line 96, read() returning 0: the pipe is empty and no process has its
\* write end open.
ParentReadEOF(c) ==
    /\ ppc[c] = "read"
    /\ \E k \in Calls :
         /\ ptab[exec_pipe_read(c)] = PipeR(k)
         /\ pipebuf[k] = <<>>
         /\ ~Writers(k)
    /\ ReadReturns(c, 0, perrno[c], <<0, 0>>)
    /\ eof' = [eof EXCEPT ![c] = cpc[c]]
    /\ UNCHANGED <<args, ptab0, ptab, exec_pipe, perrno, pipebuf>>
    /\ UNCHANGED cvars

\* Line 96, read() returning -1: interrupted by a signal (EINTR), EAGAIN,
\* or an I/O error.
ParentReadError(c) ==
    /\ ppc[c] = "read"
    /\ \E e \in {EINTR, EAGAIN, EIO} : ReadReturns(c, -1, e, <<0, 0>>)
    /\ UNCHANGED <<args, ptab0, ptab, exec_pipe, perrno, eof, pipebuf>>
    /\ UNCHANGED cvars

\* ParentWait closing the caller's fd_stdin after the child is reaped.
ParentWait_ClosesStdin(c) ==
    /\ ppc[c] = "waitpid"
    /\ cpc[c] = "zombie"
    /\ cpc' = [cpc EXCEPT ![c] = "reaped"]
    /\ ppc' = [ppc EXCEPT ![c] = "close_read"]
    /\ ptab' = CloseFd(ptab, fd_stdin(c))
    /\ UNCHANGED <<args, ptab0, exec_pipe, result, err_out, perrno, eof,
                   ctab, cloexec, nop, nerr, pipebuf, execed, exit_status, wrote>>

\* Line 126, waitpid(pid, ..., 0) returning the terminated child.
ParentWait(c) ==
    /\ ppc[c] = "waitpid"
    /\ cpc[c] = "zombie"
    /\ cpc' = [cpc EXCEPT ![c] = "reaped"]
    /\ ppc' = [ppc EXCEPT ![c] = "close_read"]
    /\ UNCHANGED <<args, ptab0, ptab, exec_pipe, result, err_out, perrno, eof,
                   ctab, cloexec, nop, nerr, pipebuf, execed, exit_status, wrote>>

\* Line 126, waitpid interrupted by a signal while the child still runs:
\* it returns -1 (EINTR) and the return value is not looked at.
ParentWaitInterrupted(c) ==
    /\ ppc[c] = "waitpid"
    /\ cpc[c] \notin {"zombie", "reaped", "none"}
    /\ ppc' = [ppc EXCEPT ![c] = "close_read"]
    /\ UNCHANGED <<args, ptab0, ptab, exec_pipe, result, err_out, perrno, eof, pipebuf>>
    /\ UNCHANGED cvars

\* ParentCloseRead without the close of line 129.
ParentCloseRead_Leak(c) ==
    /\ ppc[c] = "close_read"
    /\ ppc' = [ppc EXCEPT ![c] = "done"]
    /\ UNCHANGED <<args, ptab0, ptab, exec_pipe, result, err_out, perrno, eof, pipebuf>>
    /\ UNCHANGED cvars

\* Lines 129-130: close(exec_pipe_read); return result.
ParentCloseRead(c) ==
    /\ ppc[c] = "close_read"
    /\ ptab' = CloseFd(ptab, exec_pipe_read(c))
    /\ ppc' = [ppc EXCEPT ![c] = "done"]
    /\ UNCHANGED <<args, ptab0, exec_pipe, result, err_out, perrno, eof, pipebuf>>
    /\ UNCHANGED cvars

(* ------------------------------- child side ---------------------------- *)

\* Some process still has the read end of pipe k open.
Readers(k) ==
    \/ HeldBy(ptab, PipeR(k))
    \/ \E d \in Calls : HeldBy(ctab[d], PipeR(k))

\* The child leaves the bootstrap for notify_parent_and_exit(exec_pipe_write,
\* operation, err).
GoNotify(c, operation, err) ==
    /\ nop' = [nop EXCEPT ![c] = operation]
    /\ nerr' = [nerr EXCEPT ![c] = err]
    /\ cpc' = [cpc EXCEPT ![c] = "notify"]

\* Line 137: close(exec_pipe_read) in the child.
ChildCloseRead(c) ==
    /\ cpc[c] = "close_read"
    /\ ctab' = [ctab EXCEPT ![c] = CloseFd(ctab[c], exec_pipe_read(c))]
    /\ cpc' = [cpc EXCEPT ![c] = "dup2_stdin"]
    /\ UNCHANGED <<cloexec, nop, nerr, execed, exit_status, wrote, pipebuf>>
    /\ UNCHANGED pvars

\* err = dup2(src, dst); if (err == -1) notify_parent_and_exit(..DUP2, errno).
ChildDup2(c, at, src, dst, next) ==
    /\ cpc[c] = at
    /\ IF Dup2Ok(ctab[c], src)
       THEN /\ ctab' = [ctab EXCEPT ![c] = Dup2Tab(ctab[c], src, dst)]
            /\ cloexec' = [cloexec EXCEPT ![c] = IF src = dst THEN @ ELSE @ \ {dst}]
            /\ cpc' = [cpc EXCEPT ![c] = next]
            /\ UNCHANGED <<nop, nerr>>
       ELSE /\ GoNotify(c, _CLIB_FORK_EXEC_CHILD_ERR_DUP2, EBADF)
            /\ UNCHANGED <<ctab, cloexec>>
    /\ UNCHANGED <<execed, exit_status, wrote, pipebuf>>
    /\ UNCHANGED pvars

\* Lines 139-143.
ChildDup2Stdin(c) == ChildDup2(c, "dup2_stdin", fd_stdin(c), STDIN_FILENO, "dup2_stdout")

\* Lines 145-149.
ChildDup2Stdout(c) == ChildDup2(c, "dup2_stdout", fd_stdout(c), STDOUT_FILENO, "dup2_stderr")

\* Lines 151-155.
ChildDup2Stderr(c) == ChildDup2(c, "dup2_stderr", fd_stderr(c), STDERR_FILENO, "close_fds")

\* Lines 157-159: close(fd_stdin); close(fd_stdout); close(fd_stderr).
ChildCloseFds(c) ==
    /\ cpc[c] = "close_fds"
    /\ ctab' = [ctab EXCEPT ![c] =
                  CloseFd(CloseFd(CloseFd(@, fd_stdin(c)), fd_stdout(c)), fd_stderr(c))]
    /\ cpc' = [cpc EXCEPT ![c] = "close_rest"]
    /\ UNCHANGED <<cloexec, nop, nerr, execed, exit_status, wrote, pipebuf>>
    /\ UNCHANGED pvars

\* The descriptors the loop of lines 161-167 closes: STDERR_FILENO + 1 up to
\* and including getdtablesize(), except exec_pipe_write.
LoopFds(w) == {fd \in (STDERR_FILENO + 1) .. (MaxFd + 1) : fd # w}

\* Lines 161-167.
ChildCloseRest(c) ==
    /\ cpc[c] = "close_rest"
    /\ ctab' = [ctab EXCEPT ![c] = CloseAll(@, LoopFds(exec_pipe_write(c)))]
    /\ cpc' = [cpc EXCEPT ![c] = "cloexec"]
    /\ UNCHANGED <<cloexec, nop, nerr, execed, exit_status, wrote, pipebuf>>
    /\ UNCHANGED pvars

\* ChildCloexec going on to the next step after a failed fcntl.
ChildCloexec_FallsThrough(c) ==
    /\ cpc[c] = "cloexec"
    /\ IF ctab[c][exec_pipe_write(c)] # Closed
       THEN /\ cloexec' = [cloexec EXCEPT ![c] = @ \cup {exec_pipe_write(c)}]
            /\ UNCHANGED <<nop, nerr>>
       ELSE /\ nop' = [nop EXCEPT ![c] = _CLIB_FORK_EXEC_CHILD_ERR_PIPE_CLOEXEC]
            /\ nerr' = [nerr EXCEPT ![c] = EBADF]
            /\ UNCHANGED cloexec
    /\ cpc' = [cpc EXCEPT ![c] = "signals"]
    /\ UNCHANGED <<ctab, execed, exit_status, wrote, pipebuf>>
    /\ UNCHANGED pvars

\* Lines 171-175: fcntl(exec_pipe_write, F_SETFD, FD_CLOEXEC), which fails
\* with EBADF when exec_pipe_write is not an open descriptor.
ChildCloexec(c) ==
    /\ cpc[c] = "cloexec"
    /\ IF ctab[c][exec_pipe_write(c)] # Closed
       THEN /\ cloexec' = [cloexec EXCEPT ![c] = @ \cup {exec_pipe_write(c)}]
            /\ cpc' = [cpc EXCEPT ![c] = "signals"]
            /\ UNCHANGED <<nop, nerr>>
       ELSE /\ GoNotify(c, _CLIB_FORK_EXEC_CHILD_ERR_PIPE_CLOEXEC, EBADF)
            /\ UNCHANGED cloexec
    /\ UNCHANGED <<ctab, execed, exit_status, wrote, pipebuf>>
    /\ UNCHANGED pvars

\* Lines 177-184: signal(i, SIG_DFL) for every signal, sigprocmask(SIG_UNBLOCK).
ChildSignals(c) ==
    /\ cpc[c] = "signals"
    /\ cpc' = [cpc EXCEPT ![c] = "execve"]
    /\ UNCHANGED <<ctab, cloexec, nop, nerr, execed, exit_status, wrote, pipebuf>>
    /\ UNCHANGED pvars

\* Line 187, execve succeeding: the descriptors marked FD_CLOEXEC are closed
\* and the new image runs.
ChildExecve(c) ==
    /\ cpc[c] = "execve"
    /\ ctab' = [ctab EXCEPT ![c] = CloseAll(@, cloexec[c])]
    /\ cloexec' = [cloexec EXCEPT ![c] = {}]
    /\ execed' = [execed EXCEPT ![c] = TRUE]
    /\ cpc' = [cpc EXCEPT ![c] = "image"]
    /\ UNCHANGED <<nop, nerr, exit_status, wrote, pipebuf>>
    /\ UNCHANGED pvars

\* Lines 187-190, execve failing with ENOENT.
ChildExecveFails(c) ==
    /\ cpc[c] = "execve"
    /\ GoNotify(c, _CLIB_FORK_EXEC_CHILD_ERR_EXEC, ENOENT)
    /\ UNCHANGED <<ctab, cloexec, execed, exit_status, wrote, pipebuf>>
    /\ UNCHANGED pvars

\* notify_parent_and_exit with the write done twice.
notify_parent_and_exit_WritesTwice(c) ==
    /\ cpc[c] = "notify"
    /\ LET f == ctab[c][exec_pipe_write(c)]
           k == f - PipeW(0)
           ok == IF f \in {PipeW(d) : d \in Calls} THEN Readers(k)
                 ELSE f \in UserFiles
           rec == <<nop[c], nerr[c], IF ok THEN f ELSE Closed>>
       IN /\ pipebuf' = IF ok /\ k \in Calls
                        THEN [pipebuf EXCEPT ![k] = @ \o <<nop[c], nerr[c], nop[c], nerr[c]>>]
                        ELSE pipebuf
          /\ wrote' = [wrote EXCEPT ![c] = @ \o <<rec, rec>>]
    /\ cpc' = [cpc EXCEPT ![c] = "exit"]
    /\ UNCHANGED <<ctab, cloexec, nop, nerr, execed, exit_status>>
    /\ UNCHANGED pvars

\* Lines 47-48: write(exec_pipe_write, {operation, err}, SIZE).  The two ints
\* go to whatever file the descriptor refers to: into a pipe when it is the
\* write end of one that still has a reader, to the file when it is another
\* file; the write fails (EBADF, EPIPE) otherwise.  Its result is ignored.
notify_parent_and_exit(c) ==
    /\ cpc[c] = "notify"
    /\ LET f == ctab[c][exec_pipe_write(c)]
           k == f - PipeW(0)
           ok == IF f \in {PipeW(d) : d \in Calls} THEN Readers(k)
                 ELSE f \in UserFiles
       IN /\ pipebuf' = IF ok /\ k \in Calls
                        THEN [pipebuf EXCEPT ![k] = @ \o <<nop[c], nerr[c]>>]
                        ELSE pipebuf
          /\ wrote' = [wrote EXCEPT ![c] =
                         Append(@, <<nop[c], nerr[c], IF ok THEN f ELSE Closed>>)]
    /\ cpc' = [cpc EXCEPT ![c] = "exit"]
    /\ UNCHANGED <<ctab, cloexec, nop, nerr, execed, exit_status>>
    /\ UNCHANGED pvars

\* Line 49: _exit(127).  Every descriptor of the child is closed and the
\* child stays a zombie until it is waited for.
ChildExit(c) ==
    /\ cpc[c] = "exit"
    /\ ctab' = [ctab EXCEPT ![c] = AllClosed]
    /\ cloexec' = [cloexec EXCEPT ![c] = {}]
    /\ cpc' = [cpc EXCEPT ![c] = "zombie"]
    /\ exit_status' = [exit_status EXCEPT ![c] = ExitNotify]
    /\ UNCHANGED <<nop, nerr, execed, wrote, pipebuf>>
    /\ UNCHANGED pvars

\* The program started by execve terminates.
ImageExit(c) ==
    /\ cpc[c] = "image"
    /\ ctab' = [ctab EXCEPT ![c] = AllClosed]
    /\ cpc' = [cpc EXCEPT ![c] = "zombie"]
    /\ exit_status' = [exit_status EXCEPT ![c] = 0]
    /\ UNCHANGED <<cloexec, nop, nerr, execed, wrote, pipebuf>>
    /\ UNCHANGED pvars

(* ---------------------------- specification ---------------------------- *)

Parent(c) ==
    \/ ParentPipe(c)
    \/ ParentFork(c)
    \/ ParentForkFails(c)
    \/ ParentForkFailed(c)
    \/ ParentCloseWrite(c)
    \/ ParentReadData(c)
    \/ ParentReadEOF(c)
    \/ ParentReadError(c)
    \/ ParentWait(c)
    \/ ParentWaitInterrupted(c)
    \/ ParentCloseRead(c)

Child(c) ==
    \/ ChildCloseRead(c)
    \/ ChildDup2Stdin(c)
    \/ ChildDup2Stdout(c)
    \/ ChildDup2Stderr(c)
    \/ ChildCloseFds(c)
    \/ ChildCloseRest(c)
    \/ ChildCloexec(c)
    \/ ChildSignals(c)
    \/ ChildExecve(c)
    \/ ChildExecveFails(c)
    \/ notify_parent_and_exit(c)
    \/ ChildExit(c)
    \/ ImageExit(c)

Next == \E c \in Calls : Parent(c) \/ Child(c)

Spec == Init /\ [][Next]_vars

SpecConc == InitConc /\ [][Next]_vars

\* The read loop of lines 94-121 on its own: call 1 is at read() with
\* descriptors 3 and 4 as its pipe, the pipe holds any ints (whole records
\* or not), and its write end is still open in the child or already closed.
RecInts ==
    { _CLIB_FORK_EXEC_CHILD_ERR_DUP2, _CLIB_FORK_EXEC_CHILD_ERR_EXEC, ENOENT, EBADF }

RECURSIVE SeqsUpTo(_, _)
SeqsUpTo(S, n) ==
    IF n = 0 THEN {<<>>}
    ELSE LET shorter == SeqsUpTo(S, n - 1)
         IN shorter \cup {Append(q, x) : q \in shorter, x \in S}

InitRead ==
    LET stdio == TableOf({STDIN_FILENO, STDOUT_FILENO, STDERR_FILENO})
        r == STDERR_FILENO + 1
        w == STDERR_FILENO + 2
    IN /\ args = [c \in Calls |-> <<STDIN_FILENO, STDOUT_FILENO, STDERR_FILENO>>]
       /\ ptab0 = stdio
       /\ ptab = [stdio EXCEPT ![r] = PipeR(1)]
       /\ ppc = [c \in Calls |-> IF c = 1 THEN "read" ELSE "idle"]
       /\ exec_pipe = [c \in Calls |-> IF c = 1 THEN <<r, w>> ELSE <<Closed, Closed>>]
       /\ result = [c \in Calls |-> 0]
       /\ err_out = [c \in Calls |-> IF c = 1 THEN 0 ELSE Garbage]
       /\ perrno = [c \in Calls |-> 0]
       /\ \E open \in BOOLEAN :
            /\ cpc = [c \in Calls |-> IF c # 1 THEN "none"
                                      ELSE IF open THEN "execve" ELSE "image"]
            /\ ctab = [c \in Calls |-> IF c # 1 THEN AllClosed
                                       ELSE IF open THEN [stdio EXCEPT ![w] = PipeW(1)]
                                       ELSE stdio]
            /\ cloexec = [c \in Calls |-> IF c = 1 /\ open THEN {w} ELSE {}]
            /\ execed = [c \in Calls |-> c = 1 /\ ~open]
       /\ nop = [c \in Calls |-> 0]
       /\ nerr = [c \in Calls |-> 0]
       /\ pipebuf \in {[c \in Calls |-> IF c = 1 THEN q ELSE <<>>] :
                         q \in SeqsUpTo(RecInts, MaxPipe)}
       /\ wrote = [c \in Calls |-> <<>>]
       /\ eof = [c \in Calls |-> "no"]
          /\ exit_status = [c \in Calls |-> NoStatus]

NextRead == ParentReadData(1) \/ ParentReadEOF(1) \/ ParentReadError(1)

SpecRead == InitRead /\ [][NextRead]_vars

(* ------------------------------- claims -------------------------------- *)

\* The call has returned; with a negative stage code; with a pid.
Returned(c) == ppc[c] = "done"
Failed(c) == Returned(c) /\ result[c] < 0
Succeeded(c) == Returned(c) /\ result[c] > 0

\* fork() succeeded in call c.
Forked(c) == cpc[c] # "none"

\* The child is gone: never created, or terminated and waited for.
NoProcess(c) == cpc[c] \in {"none", "reaped"}

ErrCodes ==
    { _CLIB_FORK_EXEC_ERR_PIPE_OPEN, _CLIB_FORK_EXEC_ERR_FORK,
      _CLIB_FORK_EXEC_ERR_PIPE_READ, _CLIB_FORK_EXEC_CHILD_ERR_DUP2,
      _CLIB_FORK_EXEC_CHILD_ERR_PIPE_CLOEXEC, _CLIB_FORK_EXEC_CHILD_ERR_EXEC }

\* The caller has its standard descriptors 0, 1 and 2 open.
StdioOpen == \A fd \in {STDIN_FILENO, STDOUT_FILENO, STDERR_FILENO} : ptab[fd] = fd

\* C1: the parent reads 0 bytes from the error pipe (and so returns the pid)
\* only when execve has succeeded in the child; stated for the callers that
\* have descriptors 0, 1 and 2 open.
C1_EofOnlyAfterExec == \A c \in Calls : StdioOpen /\ eof[c] # "no" => execed[c]

\* C2: when the call returns a negative stage code, execve has not
\* succeeded in the child.
C2_FailedNeverRan == \A c \in Calls : Failed(c) => ~execed[c]

ChildStages ==
    { _CLIB_FORK_EXEC_CHILD_ERR_DUP2, _CLIB_FORK_EXEC_CHILD_ERR_PIPE_CLOEXEC,
      _CLIB_FORK_EXEC_CHILD_ERR_EXEC }

\* C3: when the call returns a negative stage code, no process created by
\* the call exists: the child was never forked or has been waited for;
\* stated for the three child-side stages.
C3_FailedLeavesNoProcess ==
    \A c \in Calls : Returned(c) /\ result[c] \in ChildStages => NoProcess(c)

ClosedAtCall(fd) == ptab[fd] \notin UserFiles

\* C5: when one of fd_stdin, fd_stdout, fd_stderr was not open in the
\* caller, a call that forked and whose reads did not fail returns
\* _CLIB_FORK_EXEC_CHILD_ERR_DUP2 with *err_out = EBADF; stated for the
\* callers that have descriptors 0, 1 and 2 open.
C5_ClosedFdIsDup2EBADF ==
    \A c \in Calls :
      (/\ Returned(c) /\ Forked(c) /\ StdioOpen
       /\ result[c] # _CLIB_FORK_EXEC_ERR_PIPE_READ
       /\ \E i \in 1 .. 3 : ClosedAtCall(args[c][i]))
      => result[c] = _CLIB_FORK_EXEC_CHILD_ERR_DUP2 /\ err_out[c] = EBADF

\* C6: when the child got as far as execve and execve failed with errno e,
\* a call whose reads did not fail returns _CLIB_FORK_EXEC_CHILD_ERR_EXEC
\* with *err_out = e.
C6_ExecFailureIsReported ==
    \A c \in Calls :
      (/\ Returned(c)
       /\ result[c] # _CLIB_FORK_EXEC_ERR_PIPE_READ
       /\ nop[c] = _CLIB_FORK_EXEC_CHILD_ERR_EXEC)
      => result[c] = _CLIB_FORK_EXEC_CHILD_ERR_EXEC /\ err_out[c] = nerr[c]

C9_FailureIsOwnChildsRecord ==
    \A c \in Calls :
      Returned(c) /\ result[c] \in ChildStages
      => \E i \in DOMAIN wrote[c] : wrote[c][i] = <<result[c], err_out[c], PipeW(c)>>

\* C10: once fork has succeeded the call does not return before the child
\* has terminated on a failure path or replaced its image; stated for the
\* calls whose reads did not fail.
C10_NoReturnDuringBootstrap ==
    \A c \in Calls :
      (Returned(c) /\ Forked(c) /\ result[c] # _CLIB_FORK_EXEC_ERR_PIPE_READ)
      => cpc[c] \in {"image", "zombie", "reaped"}

\* C11: a step that takes the parent out of the read loop is one of: a read
\* of 0 bytes, giving the pid and leaving *err_out alone; a read of a whole
\* record, giving its two ints as result and *err_out; a read of fewer ints
\* than a record, giving PIPE_READ and EDOM; a read error other than EINTR
\* and EAGAIN, giving PIPE_READ and that errno.  A step that leaves the
\* parent in the loop changes neither result nor *err_out.
C11_ReadLoopOutcomes ==
    [][\A c \in Calls :
         ppc[c] = "read" =>
           IF ppc'[c] = "read"
           THEN result'[c] = result[c] /\ err_out'[c] = err_out[c]
           ELSE \/ /\ pipebuf[c] = <<>>
                   /\ pipebuf'[c] = <<>>
                   /\ result'[c] = Pid(c)
                   /\ err_out'[c] = err_out[c]
                \/ /\ Len(pipebuf[c]) >= FORK_EXEC_ERR_MESSAGE_SIZE
                   /\ pipebuf'[c] = Drop(pipebuf[c], FORK_EXEC_ERR_MESSAGE_SIZE)
                   /\ result'[c] = pipebuf[c][1]
                   /\ err_out'[c] = pipebuf[c][2]
                \/ /\ pipebuf[c] # <<>>
                   /\ Len(pipebuf[c]) < FORK_EXEC_ERR_MESSAGE_SIZE
                   /\ pipebuf'[c] = <<>>
                   /\ result'[c] = _CLIB_FORK_EXEC_ERR_PIPE_READ
                   /\ err_out'[c] = EDOM
                \/ /\ pipebuf'[c] = pipebuf[c]
                   /\ result'[c] = _CLIB_FORK_EXEC_ERR_PIPE_READ
                   /\ err_out'[c] \notin {0, EINTR, EAGAIN, EDOM}]_vars

\* C11 witness: a read of less than a record has ended the loop with
\* PIPE_READ and EDOM.
C11_Witness ==
    /\ ppc[1] = "waitpid"
    /\ pipebuf[1] = <<>>
    /\ result[1] = _CLIB_FORK_EXEC_ERR_PIPE_READ
    /\ err_out[1] = EDOM

\* C12: when fork fails the call returns _CLIB_FORK_EXEC_ERR_FORK with
\* *err_out equal to the errno fork reported (EAGAIN), whatever the two
\* close calls of lines 79-80 returned.
C12_ForkErrnoReported ==
    \A c \in Calls :
      Returned(c) /\ result[c] = _CLIB_FORK_EXEC_ERR_FORK => err_out[c] = EAGAIN

\* The three descriptors of the request were open in the caller.
RequestOpen(c) == \A i \in 1 .. 3 : ptab0[args[c][i]] # Closed

\* C13: for a request whose three descriptors are open in the caller, when
\* the child is at execve its descriptors 0, 1 and 2 are open and refer to
\* the files the caller's fd_stdin, fd_stdout and fd_stderr referred to;
\* stated for the callers that have descriptors 0, 1 and 2 open.
C13_ChildStdioIsRequested ==
    \A c \in Calls :
      cpc[c] = "execve" /\ StdioOpen /\ RequestOpen(c)
      => /\ ctab[c][STDIN_FILENO] = ptab0[fd_stdin(c)]
         /\ ctab[c][STDOUT_FILENO] = ptab0[fd_stdout(c)]
         /\ ctab[c][STDERR_FILENO] = ptab0[fd_stderr(c)]

\* C14: after the cleanup of lines 157-167 the write end of the pipe is
\* still open in the child at exec_pipe_write, and nothing is open in the
\* child but descriptors 0, 1, 2 and exec_pipe_write; stated for the
\* callers that have descriptors 0, 1 and 2 open.
C14_CleanupKeepsWriteEnd ==
    \A c \in Calls :
      cpc[c] = "cloexec" /\ StdioOpen
      => /\ ctab[c][exec_pipe_write(c)] = PipeW(c)
         /\ \A fd \in Fds :
              ctab[c][fd] # Closed
              => fd \in {STDIN_FILENO, STDOUT_FILENO, STDERR_FILENO, exec_pipe_write(c)}

ChildOrder ==
    << "close_read", "dup2_stdin", "dup2_stdout", "dup2_stderr", "close_fds",
       "close_rest", "cloexec", "signals", "execve" >>

\* The stage a failure of each step is reported with.
StageOf(pc) ==
    IF pc \in {"dup2_stdin", "dup2_stdout", "dup2_stderr"}
    THEN _CLIB_FORK_EXEC_CHILD_ERR_DUP2
    ELSE IF pc = "cloexec" THEN _CLIB_FORK_EXEC_CHILD_ERR_PIPE_CLOEXEC
    ELSE IF pc = "execve" THEN _CLIB_FORK_EXEC_CHILD_ERR_EXEC
    ELSE 0

\* C16: every step of the child is the next one of the fixed order with no
\* failure recorded, or the successful execve, or the step from a failing
\* dup2, fcntl or execve to notify_parent_and_exit with the stage of that
\* step, from there to the write of that stage, and from there to the exit
\* with status 127; nothing else follows a failure.
C16_FixedOrder ==
    [][\A c \in Calls :
         cpc'[c] # cpc[c] /\ cpc[c] # "none" =>
           \/ /\ \E i \in 1 .. (Len(ChildOrder) - 1) :
                    cpc[c] = ChildOrder[i] /\ cpc'[c] = ChildOrder[i + 1]
              /\ nop'[c] = 0
              /\ wrote'[c] = <<>>
           \/ cpc[c] = "execve" /\ cpc'[c] = "image" /\ execed'[c] /\ nop'[c] = 0
           \/ /\ cpc'[c] = "notify"
              /\ StageOf(cpc[c]) # 0
              /\ nop'[c] = StageOf(cpc[c])
              /\ ~execed'[c]
           \/ /\ cpc[c] = "notify"
              /\ cpc'[c] = "exit"
              /\ Len(wrote'[c]) = 1
              /\ wrote'[c][1][1] = nop[c]
           \/ /\ cpc[c] = "exit"
              /\ cpc'[c] = "zombie"
              /\ exit_status'[c] = ExitNotify
              /\ ~execed'[c]
           \/ cpc[c] = "image" /\ cpc'[c] = "zombie"
           \/ cpc[c] = "zombie" /\ cpc'[c] = "reaped"]_vars

\* C16 witness: the fcntl failed, and the child has exited with status 127
\* without calling execve.
C16_Witness ==
    /\ cpc[1] = "zombie"
    /\ nop[1] = _CLIB_FORK_EXEC_CHILD_ERR_PIPE_CLOEXEC
    /\ exit_status[1] = ExitNotify
    /\ ~execed[1]

C18_CallerFdsUntouched ==
    \A c \in Calls : \A i \in 1 .. 3 :
      /\ ppc[c] # "idle" /\ ptab0[args[c][i]] # Closed
         => ptab[args[c][i]] = ptab0[args[c][i]]
      /\ Returned(c) => ptab[args[c][i]] = ptab0[args[c][i]]

\* C18 witness: the call failed in the child, which had closed its copy of
\* fd_stdin, and the parent still has fd_stdin open.
C18_Witness ==
    /\ Failed(1)
    /\ cpc[1] = "reaped"
    /\ nop[1] = _CLIB_FORK_EXEC_CHILD_ERR_EXEC
    /\ fd_stdin(1) > STDERR_FILENO
    /\ ptab[fd_stdin(1)] = fd_stdin(1)

\* C19: a positive result comes with *err_out = 0, and after line 61
\* *err_out is different from 0 only with a negative result.
C19_SuccessLeavesErrOutZero ==
    \A c \in Calls :
      /\ result[c] > 0 => err_out[c] = 0
      /\ ppc[c] \notin {"idle", "start"} /\ err_out[c] # 0 => result[c] < 0

\* C19 witness: the call has returned the pid of a child that runs the new
\* image, with *err_out = 0.
C19_Witness == Succeeded(1) /\ result[1] = Pid(1) /\ cpc[1] = "image" /\ err_out[1] = 0

====
